---- MODULE Spec2Model ----
(***************************************************************************)
(* Model of src/app.py (EPSG & Coordinate System Finder).                  *)
(*                                                                         *)
(* Angles are fixed-point integers counted in arc-seconds (1/3600 of a     *)
(* degree), the finest unit dms_to_dd's formula needs for whole            *)
(* degrees, minutes and seconds; 0.1 degree is 360 arc-seconds.  The       *)
(* Python code works on binary floats: the model is exact arithmetic on    *)
(* this grid and says nothing about float rounding between grid points.    *)
(***************************************************************************)
EXTENDS Integers, Sequences, FiniteSets, TLC

VARIABLES
    lat,          \* latitude argument of the pure-function call (arc-seconds)
    lon,          \* longitude argument of the pure-function call (arc-seconds)
    dms,          \* arguments of dms_to_dd: [degrees, minutes, seconds, direction]
    ret,          \* outcome of the last pure-function call
    epsg_result,  \* st.session_state.epsg_result
    ev,           \* the last widget event the script run handled
    table,        \* the uploaded CSV as pd.read_csv parsed it
    batch         \* what the CSV section showed for it

vars == <<lat, lon, dms, ret, epsg_result, ev, table, batch>>

----------------------------------------------------------------------------
(* Program constants *)

MinDivisor == 60
SecDivisor == 3600
HalfTurn == 180
ZoneWidth == 6
NorthBase == 32600
SouthBase == 32700

(* Bounds of the model *)

\* whole degrees of longitude explored beyond -180 and +180
LonOver == 13
\* largest minutes / seconds field value (60 and more are accepted)
MaxMinSec == 61
\* whole degrees 0..MaxDeg are explored next to a few larger values
MaxDeg == 2
\* columns of an uploaded table
MaxCols == 3
\* data rows of an uploaded table
MaxRows == 2

\* the fixed-point unit: arc-seconds in one degree
SecPerDeg == 60 * 60
Deg(d) == d * SecPerDeg
Tenth == SecPerDeg \div 10

\* Python's None
None == [kind |-> "None"]

\* how a call ends: with a value, or with an exception
Returned(v) == [kind |-> "returned", value |-> v]
Raised(e) == [kind |-> "raised", error |-> e]

----------------------------------------------------------------------------
(* dms_to_dd *)

\* "in ['S', 'W']" negates only S
dms_to_dd_OnlySouth(degrees, minutes, seconds, direction) ==
    LET dd == degrees * SecPerDeg + (minutes * SecPerDeg) \div MinDivisor
                + (seconds * SecPerDeg) \div SecDivisor
    IN  IF direction \in {"S"} THEN dd * (-1) ELSE dd

\* negates everything that is not N or E
dms_to_dd_NotNorthEast(degrees, minutes, seconds, direction) ==
    LET dd == degrees * SecPerDeg + (minutes * SecPerDeg) \div MinDivisor
                + (seconds * SecPerDeg) \div SecDivisor
    IN  IF direction \notin {"N", "E"} THEN dd * (-1) ELSE dd

\* dd = degrees + minutes / 60 + seconds / 3600, in arc-seconds; every
\* division is exact on whole minutes and seconds
dms_to_dd(degrees, minutes, seconds, direction) ==
    LET dd == degrees * SecPerDeg + (minutes * SecPerDeg) \div MinDivisor
                + (seconds * SecPerDeg) \div SecDivisor
    IN  IF direction \in {"S", "W"} THEN dd * (-1) ELSE dd

----------------------------------------------------------------------------
(* get_epsg *)

\* Python's int() on a float: truncation toward zero
IntTrunc(a, b) == IF a >= 0 THEN a \div b ELSE -((-a) \div b)

\* the "+ 1" forgotten
get_epsg_ZeroBased(la, lo) ==
    LET zone_number == IntTrunc(lo + Deg(HalfTurn), Deg(ZoneWidth))
        hemisphere == IF la >= 0 THEN "N" ELSE "S"
        epsg_code == IF la >= 0 THEN NorthBase + zone_number
                                ELSE SouthBase + zone_number
        utm_zone == ToString(zone_number) \o hemisphere
    IN  <<utm_zone, epsg_code>>

get_epsg(la, lo) ==
    LET zone_number == IntTrunc(lo + Deg(HalfTurn), Deg(ZoneWidth)) + 1
        hemisphere == IF la >= 0 THEN "N" ELSE "S"
        epsg_code == IF la >= 0 THEN NorthBase + zone_number
                                ELSE SouthBase + zone_number
        utm_zone == ToString(zone_number) \o hemisphere
    IN  <<utm_zone, epsg_code>>

----------------------------------------------------------------------------
(* get_projection_info *)

\* The codes pyproj.CRS.from_epsg is sure to find: WGS 84 / UTM zones 1..60
\* north and south, then UPS North (32661) and UPS South (32761).
UtmRegistry ==
    ((NorthBase + 1) .. (NorthBase + 61)) \cup ((SouthBase + 1) .. (SouthBase + 61))

\* pyproj.CRS.from_epsg(code): TRUE when the CRS is built, FALSE when it
\* raises CRSError.  Whether a code outside UtmRegistry is known depends on
\* the installed PROJ database, so both outcomes are possible there
\* (32600 and 32700 are in no release of the EPSG dataset).
CrsFromEpsg(code) == IF code \in UtmRegistry THEN {TRUE} ELSE BOOLEAN

\* the UTM entry written after Web Mercator
get_projection_info_UtmThird(la, lo, found) ==
    LET utm_zone == get_epsg(la, lo)[1]
        utm_epsg == get_epsg(la, lo)[2]
    IN  IF ~found
        THEN Raised("CRSError")
        ELSE Returned(<< <<"WGS84 (Geographic)", "EPSG:4326">>,
                         <<"Web Mercator", "EPSG:3857">>,
                         <<"UTM Zone " \o utm_zone, "EPSG:" \o ToString(utm_epsg)>>,
                         <<"Equal Earth", "EPSG:8857">>,
                         <<"World Cylindrical Equal Area", "EPSG:54034">> >>)

\* found: the outcome of pyproj.CRS.from_epsg(utm_epsg) on line 63.  The
\* dict keeps insertion order: it is the sequence of its (key, value) pairs.
get_projection_info(la, lo, found) ==
    LET utm_zone == get_epsg(la, lo)[1]
        utm_epsg == get_epsg(la, lo)[2]
    IN  IF ~found
        THEN Raised("CRSError")
        ELSE Returned(<< <<"WGS84 (Geographic)", "EPSG:4326">>,
                         <<"UTM Zone " \o utm_zone, "EPSG:" \o ToString(utm_epsg)>>,
                         <<"Web Mercator", "EPSG:3857">>,
                         <<"Equal Earth", "EPSG:8857">>,
                         <<"World Cylindrical Equal Area", "EPSG:54034">> >>)

----------------------------------------------------------------------------
(* Inputs and idle values *)

NoCall == [op |-> "none", out |-> None]
\* ev.before is the slot as the event found it, ev.called whether the event
\* called get_projection_info, ev.raised whether that call raised
NoEvent ==
    [op |-> "start", lat |-> 0, lon |-> 0, called |-> FALSE, raised |-> FALSE,
     before |-> None]
NoDms == [degrees |-> 0, minutes |-> 0, seconds |-> 0, direction |-> "N"]
NoTable == [columns |-> <<>>, rows |-> <<>>]
NoBatch == [status |-> "none", out |-> <<>>]

\* every tenth of a degree from -(180 + LonOver) to 180 + LonOver
LonVals == {k * Tenth : k \in (-10 * (HalfTurn + LonOver)) .. (10 * (HalfTurn + LonOver))}

\* the poles, the equator and its neighbours, London and Sydney
LatVals == {Deg(-90), Deg(-34) + Tenth, -Tenth, 0, Tenth, Deg(51) + 5 * Tenth, Deg(90)}

----------------------------------------------------------------------------
(* SpecUtm: get_epsg and get_projection_info applied to one coordinate *)

InitUtm ==
    /\ lat \in LatVals
    /\ lon \in LonVals
    /\ dms = NoDms
    /\ ret = NoCall
    /\ epsg_result = None
    /\ ev = NoEvent
    /\ table = NoTable
    /\ batch = NoBatch

CallGetEpsg ==
    /\ ret' = [op |-> "get_epsg", out |-> Returned(get_epsg(lat, lon))]
    /\ UNCHANGED <<lat, lon, dms, epsg_result, ev, table, batch>>

CallGetProjectionInfo ==
    /\ \E found \in CrsFromEpsg(get_epsg(lat, lon)[2]) :
           ret' = [op |-> "get_projection_info",
                   out |-> get_projection_info(lat, lon, found)]
    /\ UNCHANGED <<lat, lon, dms, epsg_result, ev, table, batch>>

NextUtm == CallGetEpsg \/ CallGetProjectionInfo

SpecUtm == InitUtm /\ [][NextUtm]_vars

----------------------------------------------------------------------------
(* Claims about get_epsg and get_projection_info, under SpecUtm *)

InLatDomain == Deg(-90) <= lat /\ lat <= Deg(90)
London == lat = Deg(51) + 5 * Tenth /\ lon = -Tenth
Sydney == lat = Deg(-34) + Tenth /\ lon = Deg(151) + 2 * Tenth
EpsgOut == ret.out.value

\* C1: for lat in [-90, 90] and lon in [-180, 180), get_epsg returns the zone
\* z with -180 + 6(z-1) <= lon < -180 + 6z (that is floor((lon+180)/6) + 1),
\* hemisphere N when lat >= 0 and S otherwise, code 32600 + z or 32700 + z,
\* and the label z followed by the hemisphere letter; (0, 0) gives 31N / 32631,
\* London 30N / 32630 and Sydney 56S / 32756.
C1_GetEpsg ==
    (ret.op = "get_epsg" /\ InLatDomain /\ Deg(-180) <= lon /\ lon < Deg(180)) =>
        LET base == IF lat >= 0 THEN 32600 ELSE 32700
            letter == IF lat >= 0 THEN "N" ELSE "S"
            z == EpsgOut[2] - base
        IN  /\ Deg(-180) + Deg(6) * (z - 1) <= lon
            /\ lon < Deg(-180) + Deg(6) * z
            /\ z = ((lon + Deg(180)) \div Deg(6)) + 1
            /\ EpsgOut[1] = ToString(z) \o letter
            /\ (lat = 0 /\ lon = 0) => EpsgOut = <<"31N", 32631>>
            /\ London => EpsgOut = <<"30N", 32630>>
            /\ Sydney => EpsgOut = <<"56S", 32756>>

C1_Witness ==
    ret.op = "get_epsg" /\ Sydney /\ EpsgOut = <<"56S", 32756>>

\* C9: for lat in [-90, 90] and lon in the closed interval [-180, 180] the
\* zone is in 1..60 and the code in 32601..32660 or 32701..32760; a zone
\* outside 1..60 arises only for lon < -180 or lon > 180.
C9_ZoneInStandardDomain ==
    (ret.op = "get_epsg" /\ InLatDomain /\ Deg(-180) <= lon /\ lon <= Deg(180)) =>
        LET z == EpsgOut[2] - (IF lat >= 0 THEN 32600 ELSE 32700)
        IN  /\ z \in 1..60
            /\ EpsgOut[2] \in (32601..32660) \cup (32701..32760)

\* The five entries get_projection_info must return for a coordinate, the
\* UTM entry built from get_epsg's label and code.
ExpectedTableFor(la, lo) ==
    << <<"WGS84 (Geographic)", "EPSG:4326">>,
       <<"UTM Zone " \o get_epsg(la, lo)[1],
         "EPSG:" \o ToString(get_epsg(la, lo)[2])>>,
       <<"Web Mercator", "EPSG:3857">>,
       <<"Equal Earth", "EPSG:8857">>,
       <<"World Cylindrical Equal Area", "EPSG:54034">> >>

ExpectedTable == ExpectedTableFor(lat, lon)

\* C7 as stated: for every (lat, lon) get_projection_info returns exactly the
\* five entries, in the fixed order, with the UTM entry of get_epsg(lat, lon).
C7_EveryCoordinate ==
    ret.op = "get_projection_info" =>
        /\ ret.out.kind = "returned"
        /\ ret.out.value = ExpectedTable

\* C7 amended: whenever the CRS lookup of the UTM code succeeds, which it
\* always does for lon in [-180, 180], get_projection_info returns exactly
\* the five entries in the fixed order (so the four non-UTM entries are the
\* same for all coordinates); otherwise it raises and returns no table, and
\* that happens only for lon outside [-180, 180].
C7_WhenLookupSucceeds ==
    ret.op = "get_projection_info" =>
        /\ (Deg(-180) <= lon /\ lon <= Deg(180)) => ret.out.kind = "returned"
        /\ ret.out.kind = "returned" =>
              /\ Len(ret.out.value) = 5
              /\ ret.out.value = ExpectedTable
              /\ London => ret.out.value[2] = <<"UTM Zone 30N", "EPSG:32630">>
        /\ ret.out.kind = "raised" => (lon < Deg(-180) \/ lon > Deg(180))

C7_Witness ==
    /\ ret.op = "get_projection_info"
    /\ London
    /\ ret.out.kind = "returned"
    /\ ret.out.value[2] = <<"UTM Zone 30N", "EPSG:32630">>
    /\ ret.out.value[5] = <<"World Cylindrical Equal Area", "EPSG:54034">>

----------------------------------------------------------------------------
(* SpecDms: dms_to_dd applied to one degrees/minutes/seconds/direction tuple *)

\* the four directions the select boxes offer, and two they do not
Directions == {"N", "S", "E", "W", "X", "s"}
DegVals == (0 .. MaxDeg) \cup {-1, 90, 180}
DmsVals ==
    [degrees : DegVals, minutes : 0 .. MaxMinSec, seconds : 0 .. MaxMinSec,
     direction : Directions]

InitDms ==
    /\ dms \in DmsVals
    /\ lat = 0
    /\ lon = 0
    /\ ret = NoCall
    /\ epsg_result = None
    /\ ev = NoEvent
    /\ table = NoTable
    /\ batch = NoBatch

CallDmsToDd ==
    /\ ret' = [op |-> "dms_to_dd",
               out |-> Returned(dms_to_dd(dms.degrees, dms.minutes, dms.seconds,
                                          dms.direction))]
    /\ UNCHANGED <<lat, lon, dms, epsg_result, ev, table, batch>>

NextDms == CallDmsToDd

SpecDms == InitDms /\ [][NextDms]_vars

\* degrees + minutes/60 + seconds/3600 in arc-seconds
DmsSum == dms.degrees * 3600 + dms.minutes * 60 + dms.seconds
ValidDirection == dms.direction \in {"N", "S", "E", "W"}

\* C3 as stated: with a direction outside N, S, E, W the call fails with an
\* InvalidDirection error and returns no value.
C3_InvalidDirectionFails ==
    (ret.op = "dms_to_dd" /\ ~ValidDirection) =>
        (ret.out.kind = "raised" /\ ret.out.error = "InvalidDirection")

\* C3 amended: with a direction outside N, S, E, W the call raises nothing
\* and returns degrees + minutes/60 + seconds/3600, the value it returns
\* for N and E.
C3_InvalidDirectionPositive ==
    (ret.op = "dms_to_dd" /\ ~ValidDirection) =>
        (ret.out.kind = "returned" /\ ret.out.value = DmsSum)

C3_Witness ==
    /\ ret.op = "dms_to_dd"
    /\ dms = [degrees |-> 2, minutes |-> 30, seconds |-> 15, direction |-> "X"]
    /\ ret.out = Returned(9015)

\* C8: for all degrees, minutes and seconds (60 and more included) the N and
\* E results are degrees + minutes/60 + seconds/3600, the S result is minus
\* the N result and the W result is minus the E result.
C8_NegationSymmetric ==
    ret.op = "dms_to_dd" =>
        /\ ret.out.kind = "returned"
        /\ dms.direction \in {"N", "E"} => ret.out.value = DmsSum
        /\ dms.direction = "S" =>
              /\ ret.out.value = -DmsSum
              /\ ret.out.value
                   = -dms_to_dd(dms.degrees, dms.minutes, dms.seconds, "N")
        /\ dms.direction = "W" =>
              /\ ret.out.value = -DmsSum
              /\ ret.out.value
                   = -dms_to_dd(dms.degrees, dms.minutes, dms.seconds, "E")

C8_Witness ==
    /\ ret.op = "dms_to_dd"
    /\ dms = [degrees |-> 2, minutes |-> 61, seconds |-> 60, direction |-> "W"]
    /\ ret.out = Returned(-10920)

----------------------------------------------------------------------------
(* CSV upload section *)

\* Column names are sequences of characters, so that str.lower acts on them.
LowerChar(c) ==
    CASE c = "L" -> "l"
      [] c = "A" -> "a"
      [] c = "T" -> "t"
      [] c = "O" -> "o"
      [] c = "N" -> "n"
      [] OTHER -> c

\* df.columns.str.lower() forgotten: the names are compared as uploaded
Lower_Identity(name) == name

Lower(name) == [i \in 1 .. Len(name) |-> LowerChar(name[i])]

LatName == <<"l", "a", "t">>
LonName == <<"l", "o", "n">>

\* how many columns carry the name
Count(columns, name) == Cardinality({i \in 1 .. Len(columns) : columns[i] = name})

\* A cell as pd.read_csv hands it over: a number (arc-seconds), text that is
\* no number, or NaN for an empty field.
Num(v) == [kind |-> "num", v |-> v]
Text == [kind |-> "str", v |-> 0]
NaN == [kind |-> "nan", v |-> 0]

\* get_epsg on one row's cells.  Text in lon fails at "lon + 180"
\* (TypeError), NaN in lon at int() (ValueError), text in lat at "lat >= 0"
\* (TypeError; a column holding any text is read as strings throughout, so
\* the row that holds the text fails whatever the other cells are).  NaN in
\* lat raises nothing: NaN >= 0 is False and the southern branch is taken,
\* as for any negative latitude.
RowGetEpsg(row) ==
    IF row.lon.kind = "str" THEN Raised("TypeError")
    ELSE IF row.lon.kind = "nan" THEN Raised("ValueError")
    ELSE IF row.lat.kind = "str" THEN Raised("TypeError")
    ELSE IF row.lat.kind = "nan" THEN Returned(get_epsg(-1, row.lon.v))
    ELSE Returned(get_epsg(row.lat.v, row.lon.v))

\* one row of the result frame: lat, lon, 'UTM Zone', 'EPSG Code', 'EPSG Link'
OutputRow(row) ==
    LET r == RowGetEpsg(row).value
    IN  [lat |-> row.lat, lon |-> row.lon, utm_zone |-> r[1], epsg_code |-> r[2],
         epsg_link |-> "https://epsg.io/" \o ToString(r[2])]

\* rows that raise are dropped and the others kept
ProcessCsv_SkipFailingRows(t) ==
    LET columns == [i \in 1 .. Len(t.columns) |-> Lower(t.columns[i])]
        good == SelectSeq(t.rows, LAMBDA row : RowGetEpsg(row).kind = "returned")
    IN  IF Count(columns, LatName) > 0 /\ Count(columns, LonName) > 0
        THEN [status |-> "ok", out |-> [i \in 1 .. Len(good) |-> OutputRow(good[i])]]
        ELSE [status |-> "missing_columns", out |-> <<>>]

\* The body of "if uploaded_file:" for the parsed table t.  t.rows[i].lat and
\* t.rows[i].lon are row i's cells under the first column whose lower-cased
\* name is lat, resp. lon (unused when there is none).
\*  - a name carried by two columns makes row['lat'] (row['lon']) a Series,
\*    and "lat >= 0" in a conditional (int() of the lon Series) raises;
\*  - on a frame without rows df.apply(..., axis=1) returns the empty frame
\*    itself, not a Series, and assigning that two-column frame to
\*    df['UTM Zone'] raises ValueError;
\*  - an exception in any row leaves df.apply and is caught by the except
\*    around the whole section: st.error, no table, no download.
ProcessCsv(t) ==
    LET columns == [i \in 1 .. Len(t.columns) |-> Lower(t.columns[i])]
    IN  IF Count(columns, LatName) > 0 /\ Count(columns, LonName) > 0
        THEN IF \/ Count(columns, LatName) > 1
                \/ Count(columns, LonName) > 1
                \/ Len(t.rows) = 0
                \/ \E i \in 1 .. Len(t.rows) : RowGetEpsg(t.rows[i]).kind = "raised"
             THEN [status |-> "error", out |-> <<>>]
             ELSE [status |-> "ok",
                   out |-> [i \in 1 .. Len(t.rows) |-> OutputRow(t.rows[i])]]
        ELSE [status |-> "missing_columns", out |-> <<>>]

\* file_uploader hands over t: the section processes it.  No branch of the
\* section touches st.session_state.
Upload(t) ==
    /\ table' = t
    /\ batch' = ProcessCsv(t)
    /\ ev' = [op |-> "upload", lat |-> 0, lon |-> 0, called |-> FALSE,
              raised |-> FALSE, before |-> epsg_result]
    /\ UNCHANGED <<lat, lon, dms, ret, epsg_result>>

----------------------------------------------------------------------------
(* SpecBatch: one uploaded table processed *)

ColumnNames == {<<"l", "a", "t">>, <<"L", "a", "t">>, <<"L", "O", "N">>, <<"i", "d">>}
\* pd.read_csv raises on a file without any column: a parsed table has one
Headers == UNION {[1 .. n -> ColumnNames] : n \in 1 .. MaxCols}
LatCells == {Num(Deg(-34) + Tenth), Num(Deg(51) + 5 * Tenth), Text, NaN}
LonCells == {Num(Deg(151) + 2 * Tenth), Text, NaN}
RowVals == [lat : LatCells, lon : LonCells]
Tables == [columns : Headers, rows : UNION {[1 .. n -> RowVals] : n \in 0 .. MaxRows}]

InitBatch ==
    /\ table \in Tables
    /\ batch = NoBatch
    /\ lat = 0
    /\ lon = 0
    /\ dms = NoDms
    /\ ret = NoCall
    /\ epsg_result = None
    /\ ev = NoEvent

UploadTable == batch.status = "none" /\ Upload(table)

NextBatch == UploadTable

SpecBatch == InitBatch /\ [][NextBatch]_vars

----------------------------------------------------------------------------
(* Claims about the CSV upload section, under SpecBatch *)

Uploaded == ev.op = "upload"

\* every spelling of lat and of lon, whatever the case of each letter
LatSpellings == {<<a, b, c>> : a \in {"l", "L"}, b \in {"a", "A"}, c \in {"t", "T"}}
LonSpellings == {<<a, b, c>> : a \in {"l", "L"}, b \in {"o", "O"}, c \in {"n", "N"}}
LatColumns == {i \in 1 .. Len(table.columns) : table.columns[i] \in LatSpellings}
LonColumns == {i \in 1 .. Len(table.columns) : table.columns[i] \in LonSpellings}
HasBothColumns == LatColumns # {} /\ LonColumns # {}
AllNumeric ==
    \A i \in 1 .. Len(table.rows) :
        table.rows[i].lat.kind = "num" /\ table.rows[i].lon.kind = "num"

\* what row i of the output must be when row i of the input is numeric
ExpectedRow(i) ==
    LET la == table.rows[i].lat.v
        lo == table.rows[i].lon.v
    IN  [lat |-> Num(la), lon |-> Num(lo),
         utm_zone |-> get_epsg(la, lo)[1],
         epsg_code |-> get_epsg(la, lo)[2],
         epsg_link |-> "https://epsg.io/" \o ToString(get_epsg(la, lo)[2])]

\* the rows whose latitude is text, and the case "exactly one such row, every
\* other cell a number"
TextLatRows == {i \in 1 .. Len(table.rows) : table.rows[i].lat.kind = "str"}
OneTextLat ==
    /\ Cardinality(TextLatRows) = 1
    /\ \A i \in 1 .. Len(table.rows) :
          /\ table.rows[i].lon.kind = "num"
          /\ table.rows[i].lat.kind \in {"num", "str"}

\* C4: when no column lower-cases to lat, or none to lon, the batch fails as
\* a whole with the missing-columns error and produces no row; when both
\* names are present in any letter case the structural check passes.
C4_MissingColumns ==
    Uploaded =>
        /\ ~HasBothColumns => (batch.status = "missing_columns" /\ batch.out = <<>>)
        /\ HasBothColumns => batch.status # "missing_columns"

C4_Witness ==
    /\ Uploaded
    /\ table.columns = << <<"L", "a", "t">>, <<"i", "d">> >>
    /\ Len(table.rows) = 2
    /\ batch = [status |-> "missing_columns", out |-> <<>>]

C5_OrderedRows ==
    (Uploaded /\ HasBothColumns /\ AllNumeric) =>
        /\ batch.status = "ok"
        /\ Len(batch.out) = Len(table.rows)
        /\ \A i \in 1 .. Len(table.rows) : batch.out[i] = ExpectedRow(i)

\* C6: a table with the lat and lon columns and no data row is processed
\* without error and gives an empty output.
C6_EmptyTable ==
    (Uploaded /\ HasBothColumns /\ Len(table.rows) = 0) =>
        (batch.status = "ok" /\ batch.out = <<>>)

----------------------------------------------------------------------------
(* Spec: the session, one widget event per script run *)

\* st.session_state.epsg_result after a successful Find
Result(la, lo, projections) ==
    [kind |-> "dict", lat |-> la, lon |-> lo, projections |-> projections]

\* line 77 forgotten: the warning is shown and the slot is left as it was
ManualButton_KeepsOnZero(la, lo) ==
    /\ IF la = 0 /\ lo = 0
       THEN /\ UNCHANGED epsg_result
            /\ ev' = [op |-> "find", lat |-> la, lon |-> lo, called |-> FALSE,
                      raised |-> FALSE, before |-> epsg_result]
       ELSE \E found \in CrsFromEpsg(get_epsg(la, lo)[2]) :
               LET r == get_projection_info(la, lo, found)
               IN  /\ epsg_result' = IF r.kind = "raised" THEN epsg_result
                                     ELSE Result(la, lo, r.value)
                   /\ ev' = [op |-> "find", lat |-> la, lon |-> lo, called |-> TRUE,
                             raised |-> (r.kind = "raised"), before |-> epsg_result]
    /\ UNCHANGED <<lat, lon, dms, ret, table, batch>>

\* "Find EPSG Code" pressed with the form holding (la, lo).  An exception in
\* get_projection_info ends the script run before line 80: the slot keeps
\* its value.
ManualButton(la, lo) ==
    /\ IF la = 0 /\ lo = 0
       THEN /\ epsg_result' = None
            /\ ev' = [op |-> "find", lat |-> la, lon |-> lo, called |-> FALSE,
                      raised |-> FALSE, before |-> epsg_result]
       ELSE \E found \in CrsFromEpsg(get_epsg(la, lo)[2]) :
               LET r == get_projection_info(la, lo, found)
               IN  /\ epsg_result' = IF r.kind = "raised" THEN epsg_result
                                     ELSE Result(la, lo, r.value)
                   /\ ev' = [op |-> "find", lat |-> la, lon |-> lo, called |-> TRUE,
                             raised |-> (r.kind = "raised"), before |-> epsg_result]
    /\ UNCHANGED <<lat, lon, dms, ret, table, batch>>

\* "Clear Results" pressed
ClearButton ==
    /\ epsg_result' = None
    /\ ev' = [op |-> "clear", lat |-> 0, lon |-> 0, called |-> FALSE,
              raised |-> FALSE, before |-> epsg_result]
    /\ UNCHANGED <<lat, lon, dms, ret, table, batch>>

\* what the decimal-degrees form can hold
FormLat == {0, Deg(51) + 5 * Tenth}
FormLon == {Deg(-190), -Tenth, 0, Deg(151) + 2 * Tenth, Deg(180)}
\* what the degrees/minutes/seconds form can hold
FormDeg == {0, 43}
FormMin == {0, 30}
\* the files uploaded during a session
SessionTables ==
    {[columns |-> << <<"L", "a", "t">>, <<"L", "O", "N">> >>, rows |-> <<>>],
     [columns |-> << <<"i", "d">>, <<"L", "a", "t">>, <<"L", "O", "N">> >>,
      rows |-> << [lat |-> Num(Deg(51) + 5 * Tenth), lon |-> Num(-Tenth)],
                  [lat |-> Num(Deg(-34) + Tenth), lon |-> Num(Deg(151) + 2 * Tenth)] >>]}

Init ==
    /\ epsg_result = None
    /\ ev = NoEvent
    /\ table = NoTable
    /\ batch = NoBatch
    /\ lat = 0
    /\ lon = 0
    /\ dms = NoDms
    /\ ret = NoCall

FindDecimal == \E la \in FormLat, lo \in FormLon : ManualButton(la, lo)

FindDms ==
    \E d1 \in FormDeg, dir1 \in {"N", "S"}, d2 \in FormDeg, dir2 \in {"E", "W"},
       m \in FormMin :
        ManualButton(dms_to_dd(d1, m, 0, dir1), dms_to_dd(d2, m, 0, dir2))

UploadCsv == \E t \in SessionTables : Upload(t)

Next == FindDecimal \/ FindDms \/ ClearButton \/ UploadCsv

Spec == Init /\ [][Next]_vars

----------------------------------------------------------------------------
(* Claims about the session slot, under Spec *)

\* the slot is empty, or holds a coordinate other than (0, 0) together with
\* the projection table of that same coordinate
SlotWellFormed ==
    \/ epsg_result = None
    \/ /\ epsg_result.kind = "dict"
       /\ ~(epsg_result.lat = 0 /\ epsg_result.lon = 0)
       /\ epsg_result.projections = ExpectedTableFor(epsg_result.lat, epsg_result.lon)

FindZero == ev.op = "find" /\ ev.lat = 0 /\ ev.lon = 0
FindOther == ev.op = "find" /\ ~(ev.lat = 0 /\ ev.lon = 0)
Overwritten ==
    epsg_result = Result(ev.lat, ev.lon, ExpectedTableFor(ev.lat, ev.lon))

\* C10 as stated: the slot is always well formed; a Find with (0, 0) empties
\* it without calling the resolver, any other Find overwrites it with the new
\* result, Clear empties it and a batch upload leaves it unchanged.
C10_EveryFindOverwrites ==
    /\ SlotWellFormed
    /\ FindZero => (epsg_result = None /\ ~ev.called)
    /\ FindOther => Overwritten
    /\ ev.op = "clear" => epsg_result = None
    /\ ev.op = "upload" => epsg_result = ev.before

\* C10 amended: the slot is always well formed; a Find with (0, 0) empties it
\* without calling the resolver; any other Find whose CRS lookup succeeds,
\* as it always does for lon in [-180, 180], overwrites it with the new
\* result, and one whose lookup raises leaves it as it was; Clear empties it
\* and a batch upload leaves it unchanged.
C10_SlotInvariant ==
    /\ SlotWellFormed
    /\ FindZero => (epsg_result = None /\ ~ev.called)
    /\ FindOther =>
          /\ ev.called
          /\ ~ev.raised => Overwritten
          /\ ev.raised => epsg_result = ev.before
          /\ (Deg(-180) <= ev.lon /\ ev.lon <= Deg(180)) => ~ev.raised
    /\ ev.op = "clear" => epsg_result = None
    /\ ev.op = "upload" => epsg_result = ev.before

C10_Witness ==
    /\ ev.op = "find"
    /\ ev.lat = Deg(51) + 5 * Tenth /\ ev.lon = -Tenth
    /\ ev.before # None
    /\ ev.before # epsg_result
    /\ epsg_result.projections[2] = <<"UTM Zone 30N", "EPSG:32630">>
    /\ batch.status = "ok"

====
